---------------------------- MODULE Spec2Model ----------------------------
(***************************************************************************)
(* A model of tiny-raytracer: the geometric primitives (object.rs), the    *)
(* vector helpers (math.rs), the scene's linear intersection scan and      *)
(* recursive shading (scene.rs) and the per-pixel parallel render driver.  *)
(*                                                                         *)
(* Numbers.  The program computes in f32.  The model computes in fixed     *)
(* point: the integer n stands for n / Scale, and one unit is the          *)
(* program's epsilon 1e-3.  Products, quotients and square roots are       *)
(* rounded to the nearest unit, as f32 rounds to the nearest float.  On    *)
(* the lattice inputs the geometry claims are checked on (whole            *)
(* coordinates, axis-parallel or 3-4-5 directions) every operation except  *)
(* the square root of a non-square is exact in both arithmetics.           *)
(*                                                                         *)
(* Zeros.  f32 has two zeros and is_sign_negative tells them apart.  The   *)
(* model's vectors hold +0.0 where they hold 0, except a negated vector,   *)
(* which holds -0.0 there (refract's -n).  Where the program asks for the  *)
(* sign of a dot product the model follows IEEE 754: a sum that cancels is *)
(* +0.0, and a sum of zeros is -0.0 only if every product is -0.0.         *)
(* Infinities and NaN are not values of the model: a ray parallel to a     *)
(* checkerboard's plane (a division by zero) is not among its inputs.      *)
(***************************************************************************)
EXTENDS Integers, Sequences, FiniteSets, TLC

(***************************************************************************)
(* Fixed-point arithmetic                                                  *)
(***************************************************************************)
\* 1e-3, the offset of shadow, reflection and refraction origins, in units.
Eps == 1

\* Units per 1.0.
Scale == 1000 * Eps

(***************************************************************************)
(* let x = v; F and let (x, y) = (v, w); F: the rest of a block, F, with   *)
(* its locals bound to the values of v and w, which are computed once.     *)
(***************************************************************************)
Let(v, F(_)) == CHOOSE r \in {F(x) : x \in {v}} : TRUE

Let2(v, w, F(_, _)) == CHOOSE r \in {F(x, y) : x \in {v}, y \in {w}} : TRUE

Abs(a) == IF a < 0 THEN -a ELSE a

Sgn(a) == IF a < 0 THEN -1 ELSE IF a > 0 THEN 1 ELSE 0

\* a / b rounded to the nearest integer, halves away from zero (b # 0).
RDiv(a, b) ==
    Let2(a, b, LAMBDA n, d :
    Let((Abs(n) + Abs(d) \div 2) \div Abs(d), LAMBDA q :
    IF Sgn(n) * Sgn(d) < 0 THEN -q ELSE q))

\* f32 multiplication and division.
Mul(a, b) == RDiv(a * b, Scale)

Div(a, b) == RDiv(a * Scale, b)

RECURSIVE SqrtIter(_, _)
SqrtIter(n, x) ==
    Let((x + n \div x) \div 2, LAMBDA y :
    IF y >= x THEN x ELSE SqrtIter(n, y))

\* The integer nearest to the square root of n >= 0.
ISqrt(a) ==
    Let(a, LAMBDA n :
    IF n = 0 THEN 0
    ELSE Let(SqrtIter(n, IF n > 46340 THEN 46340 ELSE n), LAMBDA r :
         IF n - r * r > r THEN r + 1 ELSE r))

\* f32::sqrt
Sqrt(a) == ISqrt(a * Scale)

\* f32::max, f32::min
Max(a, b) == Let2(a, b, LAMBDA x, y : IF x >= y THEN x ELSE y)

Min(a, b) == Let2(a, b, LAMBDA x, y : IF x <= y THEN x ELSE y)

\* f32::powf for a whole exponent e (given as a natural number, not scaled).
RECURSIVE PowF(_, _)
PowF(a, e) == Let(e, LAMBDA n : IF n = 0 THEN Scale ELSE Mul(a, PowF(a, n - 1)))

(***************************************************************************)
(* nalgebra::Vector3<f32>                                                  *)
(***************************************************************************)
Zero3 == <<0, 0, 0>>

Add(a, b) == Let2(a, b, LAMBDA x, y : <<x[1] + y[1], x[2] + y[2], x[3] + y[3]>>)

Sub(a, b) == Let2(a, b, LAMBDA x, y : <<x[1] - y[1], x[2] - y[2], x[3] - y[3]>>)

Neg(a) == Let(a, LAMBDA x : <<-x[1], -x[2], -x[3]>>)

\* vector * scalar and vector / scalar
Scl(a, k) == Let2(a, k, LAMBDA x, y : <<Mul(x[1], y), Mul(x[2], y), Mul(x[3], y)>>)

DivS(a, k) == Let2(a, k, LAMBDA x, y : <<Div(x[1], y), Div(x[2], y), Div(x[3], y)>>)

Dot(a, b) ==
    Let2(a, b, LAMBDA x, y : Mul(x[1], y[1]) + Mul(x[2], y[2]) + Mul(x[3], y[3]))

Cross(a, b) ==
    Let2(a, b, LAMBDA x, y :
        <<Mul(x[2], y[3]) - Mul(x[3], y[2]),
          Mul(x[3], y[1]) - Mul(x[1], y[3]),
          Mul(x[1], y[2]) - Mul(x[2], y[1])>>)

Norm(a) == Let(a, LAMBDA x : Sqrt(Dot(x, x)))

Normalize(a) == Let(a, LAMBDA x : DivS(x, Norm(x)))

\* Vector3::max: the largest component.
VMax(a) == Max(a[1], Max(a[2], a[3]))

\* A whole-number vector in units.
V(x, y, z) == <<x * Scale, y * Scale, z * Scale>>

(***************************************************************************)
(* Option<T>                                                               *)
(***************************************************************************)
None == [some |-> FALSE]

Some(x) == [some |-> TRUE, val |-> x]

(***************************************************************************)
(* math.rs                                                                 *)
(***************************************************************************)
reflect(a, n) == Sub(a, Scl(n, Mul(Dot(a, n), 2 * Scale)))

(***************************************************************************)
(* material.rs                                                             *)
(***************************************************************************)
Material_none == [diffuse |-> None, specular |-> None, reflect |-> None, refract |-> None]

Material_color(diffuse, albedo) ==
    [Material_none EXCEPT !.diffuse = Some([kind |-> diffuse, albedo |-> albedo])]

with_specular(m, specular_exp, albedo) ==
    [m EXCEPT !.specular = Some([specular_exp |-> specular_exp, albedo |-> albedo])]

with_reflect(m, albedo) == [m EXCEPT !.reflect = Some(albedo)]

with_refract(m, index, albedo) ==
    [m EXCEPT !.refract = Some([index |-> index, albedo |-> albedo])]

(***************************************************************************)
(* object.rs: Sphere                                                       *)
(***************************************************************************)
Sphere_new(center, radius, material) ==
    [kind |-> "Sphere", center |-> center, radius |-> radius, material |-> material]

IntersectionInfo(dist, hit, normal, material) ==
    [dist |-> dist, hit |-> hit, normal |-> normal, material |-> material]

\* A sphere that never falls back to the far root.
Sphere_selected_near_only(near, far) == near

\* Line 127.
Sphere_selected(near, far) == IF near < 0 THEN far ELSE near

\* Lines 112-139.
Sphere_ray_intersect(s, orig, dir) ==
    Let(Normalize(dir), LAMBDA dir_1 :
    Let(Mul(s.radius, s.radius), LAMBDA radius_sq :
    Let(Sub(s.center, orig), LAMBDA vec_to_center :
    Let(Dot(vec_to_center, dir_1), LAMBDA dir_len :
    Let(Dot(vec_to_center, vec_to_center) - Mul(dir_len, dir_len), LAMBDA dist_to_line :
    IF dist_to_line > radius_sq THEN None
    ELSE
    Let(Sqrt(radius_sq - dist_to_line), LAMBDA segment_len :
    Let(Sphere_selected(dir_len - segment_len, dir_len + segment_len), LAMBDA selected :
    Let(Add(orig, Scl(dir_1, selected)), LAMBDA hit :
    IF selected < 0 THEN None
    ELSE Some(IntersectionInfo(selected, hit,
                               Normalize(Sub(hit, s.center)), s.material))))))))))

(***************************************************************************)
Checkerboard_new(origin, cell_dir, dims, material) ==
    [kind |-> "Checkerboard", origin |-> origin, cell_dir |-> cell_dir,
     dims |-> dims, material |-> material]

Checkerboard_normal(b) == Normalize(Cross(b.cell_dir[1], b.cell_dir[2]))

\* f32 as u32 of a value that is >= 0: the fraction is dropped.
AsU32(a) == a \div Scale

\* u32 addition.  Both operands are below the board's cell counts, which the
\* model keeps far below 2^31, so the sum never reaches the type's width.
U32Add(a, b) == a + b

\* (n / d).is_sign_positive(): the quotient of a zero numerator (+0.0) takes
\* the sign of the denominator.
QuotIsSignPositive(n, d) == IF n = 0 THEN d > 0 ELSE Sgn(n) * Sgn(d) > 0

\* The fractional cell coordinates (len_0, len_1) of a point of the plane,
\* given relative to the board's origin.
Checkerboard_len(b, hit) ==
    <<Div(Dot(hit, b.cell_dir[1]), Dot(b.cell_dir[1], b.cell_dir[1])),
      Div(Dot(hit, b.cell_dir[2]), Dot(b.cell_dir[2], b.cell_dir[2]))>>

\* A bounds test that lets the far edges through.
Checkerboard_outside_far_edge_in(b, len) ==
    \/ len[1] < 0
    \/ len[2] < 0
    \/ len[1] > b.dims[1] * Scale
    \/ len[2] > b.dims[2] * Scale

\* The bounds test of line 183: TRUE when the hit is rejected.
Checkerboard_outside(b, len) ==
    \/ len[1] < 0
    \/ len[2] < 0
    \/ len[1] >= b.dims[1] * Scale
    \/ len[2] >= b.dims[2] * Scale

\* A parity that forgets the second coordinate.
Checkerboard_parity_first_only(len) == AsU32(len[1]) % 2

\* Lines 186-193: 0 selects material.0, 1 selects material.1.
Checkerboard_parity(len) == U32Add(AsU32(len[1]), AsU32(len[2])) % 2

Checkerboard_ray_intersect(b, orig, dir) ==
    Let(Sub(orig, b.origin), LAMBDA p :
    Let(Checkerboard_normal(b), LAMBDA n :
    Let(Normalize(dir), LAMBDA dir_1 :
    Let(Dot(n, p), LAMBDA np :
    Let(Dot(n, dir_1), LAMBDA nd :
    IF QuotIsSignPositive(np, nd) THEN None
    ELSE
    Let(Div(np, nd), LAMBDA neg_dist :
    Let(Sub(p, Scl(dir_1, neg_dist)), LAMBDA hit :
    Let(Checkerboard_len(b, hit), LAMBDA len :
    IF Checkerboard_outside(b, len) THEN None
    ELSE Some(IntersectionInfo(-neg_dist, Add(hit, b.origin), n,
                               b.material[Checkerboard_parity(len) + 1]))))))))))

ray_intersect(object, orig, dir) ==
    IF object.kind = "Sphere" THEN Sphere_ray_intersect(object, orig, dir)
    ELSE Checkerboard_ray_intersect(object, orig, dir)


(***************************************************************************)
(* The sign bit of a dot product (Vector3::dot is a0*b0 + a1*b1 + a2*b2).  *)
(* bnegz: the zero components of b are -0.0.                               *)
(***************************************************************************)
IDot(a, b) == a[1] * b[1] + a[2] * b[2] + a[3] * b[3]

DotIsSignNegative(a, b, bnegz) ==
    LET negzero(k) ==
            /\ a[k] * b[k] = 0
            /\ (a[k] < 0) # (b[k] < 0 \/ (b[k] = 0 /\ bnegz))
    IN  IF IDot(a, b) # 0 THEN IDot(a, b) < 0 ELSE \A k \in 1..3 : negzero(k)

(***************************************************************************)
(* math.rs: refract.  A call is the record of its arguments.               *)
(***************************************************************************)
RefractArgs(i, n, ni, nr) == [i |-> i, n |-> n, ni |-> ni, nr |-> nr, negz |-> FALSE]

\* Line 8-9: cos_i = -i.dot(&n) has its sign bit set.
refract_cos_i_negative(a) == ~DotIsSignNegative(a.i, a.n, a.negz)

\* Line 10: the arguments of the recursive call refract(i, -n, nr, ni).
refract_flipped(a) ==
    [i |-> a.i, n |-> Neg(a.n), ni |-> a.nr, nr |-> a.ni, negz |-> ~a.negz]

\* Lines 12-19.
refract_direction(a) ==
    Let(-Dot(a.i, a.n), LAMBDA cos_i :
    Let(Div(a.ni, a.nr), LAMBDA eta :
    Let(Scale - Mul(Mul(eta, eta), Scale - Mul(cos_i, cos_i)), LAMBDA cos_r_sq :
    IF cos_r_sq < 0 THEN Neg(reflect(a.i, a.n))
    ELSE Add(Scl(a.i, eta), Scl(a.n, Mul(eta, cos_i) - Sqrt(cos_r_sq))))))

RECURSIVE refract_call(_)
refract_call(a) ==
    IF refract_cos_i_negative(a) THEN refract_call(refract_flipped(a))
    ELSE refract_direction(a)

refract(i, n, ni, nr) == refract_call(RefractArgs(i, n, ni, nr))

(***************************************************************************)
(* scene.rs                                                                *)
(***************************************************************************)
AIR_REFRACTION_INDEX == Scale

\* A background that is black.
Background_black == <<0, 0, 0>>

\* Line 160.
Background == <<200, 700, 800>>

Light_new(position, intensity) == [position |-> position, intensity |-> intensity]

\* sort_unstable_by(|a, b| b.dist.partial_cmp(&a.dist)): descending by dist.
\* Slices this short are sorted by insertion, which keeps equal elements in
\* their order.
RECURSIVE InsertDescending(_, _)
InsertDescending(seq, e) ==
    Let2(seq, e, LAMBDA sorted, x :
    IF sorted = <<>> THEN <<x>>
    ELSE IF sorted[Len(sorted)].dist >= x.dist THEN Append(sorted, x)
    ELSE Append(InsertDescending(SubSeq(sorted, 1, Len(sorted) - 1), x),
                sorted[Len(sorted)]))

RECURSIVE SortDescending(_)
SortDescending(seq) ==
    Let(seq, LAMBDA v :
    IF v = <<>> THEN <<>>
    ELSE InsertDescending(SortDescending(SubSeq(v, 1, Len(v) - 1)), v[Len(v)]))

\* A scan that sorts the other way round and so pops the farthest hit.
SortAscending(seq) ==
    Let(SortDescending(seq), LAMBDA d : [k \in 1..Len(d) |-> d[Len(d) + 1 - k]])

\* map(|object| object.ray_intersect(orig, dir)): what each object reports.
RECURSIVE Reports(_, _, _)
Reports(objs, orig, dir) ==
    Let(objs, LAMBDA v :
    IF v = <<>> THEN <<>>
    ELSE Append(Reports(SubSeq(v, 1, Len(v) - 1), orig, dir),
                ray_intersect(v[Len(v)], orig, dir)))

\* filter_map(..).collect(): the hits among the reports, in their order.
RECURSIVE Collect(_)
Collect(reports) ==
    Let(reports, LAMBDA v :
    IF Len(v) = 0 THEN <<>>
    ELSE Let(Collect(SubSeq(v, 1, Len(v) - 1)), LAMBDA rest :
         IF v[Len(v)].some THEN Append(rest, v[Len(v)].val) ELSE rest))

\* Vec::pop
Pop(seq) == Let(seq, LAMBDA v : IF v = <<>> THEN None ELSE Some(v[Len(v)]))

SortIntersections(seq) == SortDescending(seq)

\* Lines 46-52 after the objects have been asked.
Nearest(reports) == Pop(SortIntersections(Collect(reports)))

test_intersect(objs, orig, dir) ==
    Let2(orig, dir, LAMBDA o, d : Nearest(Reports(objs, o, d)))

\* Lines 73-77, 118-122, 135-139: the origin of a secondary ray toward d.
OffsetOrigin(info, d) ==
    Let(d, LAMBDA toward :
    IF DotIsSignNegative(toward, info.normal, FALSE)
    THEN Sub(info.hit, Scl(info.normal, Eps))
    ELSE Add(info.hit, Scl(info.normal, Eps)))

\* Lines 69-71.
LightDir(info, light) == Normalize(Sub(light.position, info.hit))

LightDist(info, light) == Norm(Sub(light.position, info.hit))

\* A shadow test that forgets the light's distance: any hit shadows.
Occluded_any_hit(objs, info, light) ==
    Let(LightDir(info, light), LAMBDA light_dir :
    test_intersect(objs, OffsetOrigin(info, light_dir), light_dir).some)

\* Lines 73-82: the light is dropped from filtered_lights.
Occluded(objs, info, light) ==
    Let(LightDir(info, light), LAMBDA light_dir :
    Let(test_intersect(objs, OffsetOrigin(info, light_dir), light_dir), LAMBDA shadow_info :
    shadow_info.some /\ shadow_info.val.dist < LightDist(info, light)))

\* Lines 65-84: the (light_dir, light) pairs of the lts that are kept.
RECURSIVE filtered_lights(_, _, _)
filtered_lights(objs, lts, info) ==
    Let(lts, LAMBDA v :
    IF v = <<>> THEN <<>>
    ELSE Let2(v[Len(v)], filtered_lights(objs, SubSeq(v, 1, Len(v) - 1), info),
              LAMBDA light, rest :
         IF Occluded(objs, info, light) THEN rest
         ELSE Append(rest, [light_dir |-> LightDir(info, light), light |-> light])))

\* Lines 90-92 and 105-109: one light's term of each sum.
DiffuseTerm(info, fl) == Mul(fl.light.intensity, Max(0, Dot(fl.light_dir, info.normal)))

SpecularTerm(info, fl, dir, specular_exp) ==
    Let(reflect(fl.light_dir, info.normal), LAMBDA reflect_dir :
    Let(Max(0, Dot(reflect_dir, dir)), LAMBDA angle :
    Mul(fl.light.intensity, PowF(angle, specular_exp))))

RECURSIVE DiffuseSum(_, _)
DiffuseSum(info, fls) ==
    Let(fls, LAMBDA v :
    IF v = <<>> THEN 0
    ELSE DiffuseSum(info, SubSeq(v, 1, Len(v) - 1)) + DiffuseTerm(info, v[Len(v)]))

RECURSIVE SpecularSum(_, _, _, _)
SpecularSum(info, fls, dir, e) ==
    Let(fls, LAMBDA v :
    IF v = <<>> THEN 0
    ELSE SpecularSum(info, SubSeq(v, 1, Len(v) - 1), dir, e)
             + SpecularTerm(info, v[Len(v)], dir, e))

\* Lines 86-100.
diffuse_color_vec(info, fls) ==
    IF info.material.diffuse.some
    THEN Scl(Scl(info.material.diffuse.val.kind, DiffuseSum(info, fls)),
             info.material.diffuse.val.albedo)
    ELSE Zero3

\* Lines 101-114.  dir is the normalized direction of the ray.
specular_color_vec(info, fls, dir) ==
    IF info.material.specular.some
    THEN Scl(Scl(<<Scale, Scale, Scale>>,
                 SpecularSum(info, fls, dir, info.material.specular.val.specular_exp)),
             info.material.specular.val.albedo)
    ELSE Zero3

\* A last step that never divides.
tone_unclamped(color_vec) == color_vec

\* Lines 149-158.
tone(color_vec) ==
    Let2(color_vec, VMax(color_vec), LAMBDA c, max :
    IF max > Scale THEN DivS(c, max) ELSE c)

\* A budget test that never stops the recursion.
recursion_never_exhausted(recursion_limit) == FALSE

\* Line 61.
recursion_exhausted(recursion_limit) == recursion_limit = 0

\* Lines 55-161.
RECURSIVE cast_ray(_, _, _, _, _)
cast_ray(objs, lts, orig, dir, recursion_limit) ==
    IF recursion_exhausted(recursion_limit) THEN Background
    ELSE
    Let(test_intersect(objs, orig, dir), LAMBDA found :
    IF ~found.some THEN Background
    ELSE
    Let(found.val, LAMBDA info :
    Let(Normalize(dir), LAMBDA dir_1 :
    Let(filtered_lights(objs, lts, info), LAMBDA fls :
    Let(IF info.material.reflect.some
        THEN Let(reflect(dir_1, info.normal), LAMBDA reflect_dir :
                 Scl(cast_ray(objs, lts, OffsetOrigin(info, reflect_dir), reflect_dir,
                              recursion_limit - 1),
                     info.material.reflect.val))
        ELSE Zero3, LAMBDA reflect_color_vec :
    Let(IF info.material.refract.some
        THEN Let(refract(dir_1, info.normal, AIR_REFRACTION_INDEX,
                         info.material.refract.val.index), LAMBDA refract_dir :
                 Scl(cast_ray(objs, lts, OffsetOrigin(info, refract_dir), refract_dir,
                              recursion_limit - 1),
                     info.material.refract.val.albedo))
        ELSE Zero3, LAMBDA refract_color_vec :
    tone(Add(Add(Add(diffuse_color_vec(info, fls), specular_color_vec(info, fls, dir_1)),
                 reflect_color_vec),
             refract_color_vec))))))))

(***************************************************************************)
(* State                                                                   *)
(***************************************************************************)
VARIABLES
    gq,        \* the ray_intersect call under way: [object, orig, dir]
    gres,      \* its return value, once it has returned
    objects,   \* Scene::objects
    lights,    \* Scene::lights
    phase,     \* where the program is: "setup", "running", "done", ...
    query,     \* the arguments of the outermost cast_ray call
    stack,     \* the active cast_ray calls, innermost last
    ret,       \* the value the last cast_ray call to return has returned
    tests,     \* how many times test_intersect has been called
    calls,     \* how many times cast_ray has been called
    lastTest,  \* the test_intersect call of cast_ray line 62 made by the last step, if any
    call,      \* the arguments of render: [width, height, fov]
    nworkers,  \* the size of the thread pool
    fb,        \* the Framebuffer render is given
    out,       \* the buffer the parallel map collects into
    running,   \* the pixel tasks the threads of the pool are running
    writes,    \* how many times each slot of out has been written
    old,       \* what render_with has returned
    returned   \* what render has returned

geomVars == <<gq, gres>>

sceneVars == <<objects, lights>>

castVars == <<phase, query, stack, ret, tests, calls, lastTest>>

renderVars == <<call, nworkers, fb, out, running, writes, old, returned>>

vars == <<geomVars, sceneVars, castVars, renderVars>>

Pending == [done |-> FALSE]

Returned(x) == [done |-> TRUE, val |-> x]

(***************************************************************************)
(* Bounds of the model                                                     *)
(***************************************************************************)
\* Sphere radii run over 2 .. MaxRadius.
MaxRadius == 3

\* Board cell counts: dims = (MaxCells, MaxCells - 1).
MaxCells == 3

(***************************************************************************)
(* The geometry specification: one ray_intersect call on one object.       *)
(* Vectors of the catalogue are in whole units.                            *)
(***************************************************************************)
MatA == Material_color(<<Scale, Scale, Scale>>, 400)

MatB == Material_color(<<Scale, 700, 300>>, 400)

SphereOrigins ==
    {<<0, 0, 0>>, <<0, 0, -14>>, <<0, 0, -15>>, <<0, 0, -16>>, <<0, 0, -17>>,
     <<0, 0, -18>>, <<0, 0, -19>>, <<0, 0, -21>>, <<0, 2, 0>>, <<0, 3, 0>>,
     <<1, 0, 0>>, <<1, 1, -16>>, <<0, 1, -15>>, <<0, -12, 0>>, <<0, -9, -4>>}

SphereDirs == {<<0, 0, -1>>, <<0, 0, 1>>, <<0, 0, -3>>, <<0, 3, -4>>, <<0, -3, 4>>}

SphereQueries ==
    {[object |-> Sphere_new(V(0, 0, -16), r * Scale, MatA), orig |-> V(o[1], o[2], o[3]),
      dir |-> V(d[1], d[2], d[3])] :
        r \in 2..MaxRadius, o \in SphereOrigins, d \in SphereDirs}

\* A floor like the one of main.rs: cells of 2 x 2 units, normal (0, 1, 0).
Board == Checkerboard_new(V(-2, -4, -6), <<V(0, 0, 2), V(2, 0, 0)>>,
                          <<MaxCells, MaxCells - 1>>, <<MatA, MatB>>)

BoardOrigins ==
    {<<x, y, z>> : x \in -3..(2 * MaxCells - 3), y \in {0, -8}, z \in -7..(2 * MaxCells - 5)}

BoardDirs == {<<0, -1, 0>>, <<0, 2, 0>>, <<0, -4, 3>>, <<3, 4, 0>>}

BoardQueries ==
    {[object |-> Board, orig |-> V(o[1], o[2], o[3]), dir |-> V(d[1], d[2], d[3])] :
        o \in BoardOrigins, d \in BoardDirs}

GeomIdle == gq = None /\ gres = Pending

SceneEmpty == objects = <<>> /\ lights = <<>>

CastIdle ==
    /\ query = None
    /\ stack = <<>>
    /\ ret = None
    /\ tests = 0
    /\ calls = 0
    /\ lastTest = Pending

RenderIdle ==
    /\ call = None
    /\ nworkers = 0
    /\ fb = None
    /\ out = <<>>
    /\ running = {}
    /\ writes = <<>>
    /\ old = None
    /\ returned = None

InitGeom ==
    /\ gq \in SphereQueries \cup BoardQueries
    /\ gres = Pending
    /\ phase = "geometry"
    /\ SceneEmpty
    /\ CastIdle
    /\ RenderIdle

SphereQuery ==
    /\ ~gres.done
    /\ gq.object.kind = "Sphere"
    /\ gres' = Returned(Sphere_ray_intersect(gq.object, gq.orig, gq.dir))
    /\ UNCHANGED <<gq, sceneVars, castVars, renderVars>>

BoardQuery ==
    /\ ~gres.done
    /\ gq.object.kind = "Checkerboard"
    /\ gres' = Returned(Checkerboard_ray_intersect(gq.object, gq.orig, gq.dir))
    /\ UNCHANGED <<gq, sceneVars, castVars, renderVars>>

NextGeom == SphereQuery \/ BoardQuery

SpecGeom == InitGeom /\ [][NextGeom]_vars

(***************************************************************************)
(* The scene specification: a scene is built with push_object and          *)
(* push_light, then cast_ray is called once.  The calls of cast_ray that   *)
(* are under way form a stack of frames: a frame holds a call's arguments, *)
(* its locals and where it has got to.                                     *)
(***************************************************************************)
\* Catalogue sequences are at most this long.
MaxObjects == 2

MaxLights == 2

\* The outermost recursion_limit runs over 0 .. MaxDepth.
MaxDepth == 2

\* The count of refract's calls to itself stops counting here.
MaxRefractCalls == 3

Ivory ==
    with_reflect(with_specular(Material_color(<<400, 400, 300>>, 600), 2, 300), 100)

Glass ==
    with_refract(
        with_reflect(with_specular(Material_none, 3, 500), 100),
        1500, 800)

\* Spheres on the axis of the catalogue's rays, a sphere that this axis
\* touches in one point, and a board across the axis behind them.
MatteSphere == Sphere_new(V(0, 0, -16), 2 * Scale, Ivory)

GlassSphere == Sphere_new(V(0, 0, -8), 2 * Scale, Glass)

GrazedSphere == Sphere_new(V(0, 2, -16), 2 * Scale, Glass)

BackBoard ==
    Checkerboard_new(V(-2, -2, -20), <<V(2, 0, 0), V(0, 2, 0)>>, <<2, 2>>, <<MatA, MatB>>)

ObjectCatalogue == {MatteSphere, GlassSphere, GrazedSphere, BackBoard}

LightCatalogue == {Light_new(V(0, 0, -4), 1500), Light_new(V(0, 0, -12), 1000)}

RayCatalogue ==
    {[orig |-> V(0, 0, 0), dir |-> V(0, 0, -1)],
     [orig |-> V(0, 0, 0), dir |-> V(0, 0, 1)],
     [orig |-> V(0, 0, -11), dir |-> V(0, 0, -3)]}

Frame(orig, dir, recursion_limit) ==
    [orig |-> orig, dir |-> dir, recursion_limit |-> recursion_limit, pc |-> "enter",
     info |-> None, filtered_lights |-> <<>>,
     diffuse_color_vec |-> Zero3, specular_color_vec |-> Zero3,
     reflect_color_vec |-> Zero3, refract_color_vec |-> Zero3,
     refract_args |-> None, refract_calls |-> 0]

Top == stack[Len(stack)]

SetTop(f) == [stack EXCEPT ![Len(stack)] = f]

Init ==
    /\ phase = "setup"
    /\ SceneEmpty
    /\ CastIdle
    /\ GeomIdle
    /\ RenderIdle

\* scene.rs 37-39
push_object(object) ==
    /\ phase = "setup"
    /\ Len(objects) < MaxObjects
    /\ objects' = Append(objects, object)
    /\ UNCHANGED <<lights, castVars, geomVars, renderVars>>

\* scene.rs 41-43
push_light(light) ==
    /\ phase = "setup"
    /\ Len(lights) < MaxLights
    /\ lights' = Append(lights, light)
    /\ UNCHANGED <<objects, castVars, geomVars, renderVars>>

\* The outermost call of cast_ray.
CastRayCall(ray, recursion_limit) ==
    /\ phase = "setup"
    /\ phase' = "running"
    /\ query' = Some([orig |-> ray.orig, dir |-> ray.dir, recursion_limit |-> recursion_limit])
    /\ stack' = <<Frame(ray.orig, ray.dir, recursion_limit)>>
    /\ calls' = calls + 1
    /\ UNCHANGED <<ret, tests, lastTest, sceneVars, geomVars, renderVars>>

\* The innermost call returns color: its frame goes, and its caller, if it
\* has one, goes on from the call (lines 129 and 146).
Return(color) ==
    LET rest == SubSeq(stack, 1, Len(stack) - 1)
        caller == rest[Len(rest)]
        resumed ==
            IF caller.pc = "reflect_call"
            THEN [caller EXCEPT !.reflect_color_vec = Scl(color, caller.info.material.reflect.val),
                                !.pc = "refract"]
            ELSE [caller EXCEPT !.refract_color_vec =
                                    Scl(color, caller.info.material.refract.val.albedo),
                                !.pc = "combine"]
    IN  /\ ret' = Some(color)
        /\ IF rest = <<>>
           THEN stack' = <<>> /\ phase' = "done"
           ELSE stack' = [rest EXCEPT ![Len(rest)] = resumed] /\ phase' = phase

\* Lines 61 and 160: no budget left.
CastRayExhausted ==
    /\ phase = "running"
    /\ Top.pc = "enter"
    /\ recursion_exhausted(Top.recursion_limit)
    /\ Return(Background)
    /\ lastTest' = Pending
    /\ UNCHANGED <<query, tests, calls, sceneVars, geomVars, renderVars>>

\* Lines 62 and 160: nothing is hit.
CastRayMiss ==
    /\ phase = "running"
    /\ Top.pc = "enter"
    /\ ~recursion_exhausted(Top.recursion_limit)
    /\ \E found \in {test_intersect(objects, Top.orig, Top.dir)} :
           /\ ~found.some
           /\ lastTest' = Returned([orig |-> Top.orig, dir |-> Top.dir, result |-> found])
    /\ tests' = tests + 1
    /\ Return(Background)
    /\ UNCHANGED <<query, calls, sceneVars, geomVars, renderVars>>

\* Lines 62-114: something is hit; the lights are filtered by their shadow
\* rays, one test_intersect each, and the two sums over them are taken.
CastRayHit ==
    /\ phase = "running"
    /\ Top.pc = "enter"
    /\ ~recursion_exhausted(Top.recursion_limit)
    /\ \E found \in {test_intersect(objects, Top.orig, Top.dir)} :
           /\ found.some
           /\ lastTest' = Returned([orig |-> Top.orig, dir |-> Top.dir, result |-> found])
           /\ \E fls \in {filtered_lights(objects, lights, found.val)} :
                  stack' = SetTop([Top EXCEPT
                      !.info = found.val,
                      !.filtered_lights = fls,
                      !.diffuse_color_vec = diffuse_color_vec(found.val, fls),
                      !.specular_color_vec =
                          specular_color_vec(found.val, fls, Normalize(Top.dir)),
                      !.pc = "reflect"])
    /\ tests' = tests + 1 + Len(lights)
    /\ UNCHANGED <<phase, query, ret, calls, sceneVars, geomVars, renderVars>>

\* Lines 115-127: the recursive call for the reflected ray.
ReflectCall ==
    /\ phase = "running"
    /\ Top.pc = "reflect"
    /\ Top.info.material.reflect.some
    /\ \E reflect_dir \in {reflect(Normalize(Top.dir), Top.info.normal)} :
           stack' = Append(SetTop([Top EXCEPT !.pc = "reflect_call"]),
                           Frame(OffsetOrigin(Top.info, reflect_dir), reflect_dir,
                                 Top.recursion_limit - 1))
    /\ calls' = calls + 1
    /\ lastTest' = Pending
    /\ UNCHANGED <<phase, query, ret, tests, sceneVars, geomVars, renderVars>>

\* A surface that is hit but has no reflect component, taken for a miss.
ReflectSkip_as_background ==
    /\ phase = "running"
    /\ Top.pc = "reflect"
    /\ ~Top.info.material.reflect.some
    /\ stack' = SetTop([Top EXCEPT !.pc = "refract", !.reflect_color_vec = Background])
    /\ lastTest' = Pending
    /\ UNCHANGED <<phase, query, ret, tests, calls, sceneVars, geomVars, renderVars>>

\* Lines 130-131: the material does not reflect.
ReflectSkip ==
    /\ phase = "running"
    /\ Top.pc = "reflect"
    /\ ~Top.info.material.reflect.some
    /\ stack' = SetTop([Top EXCEPT !.pc = "refract"])
    /\ lastTest' = Pending
    /\ UNCHANGED <<phase, query, ret, tests, calls, sceneVars, geomVars, renderVars>>

\* Line 134: refract is called.
RefractEnter ==
    /\ phase = "running"
    /\ Top.pc = "refract"
    /\ Top.info.material.refract.some
    /\ stack' = SetTop([Top EXCEPT
           !.refract_args = Some(RefractArgs(Normalize(Top.dir), Top.info.normal,
                                             AIR_REFRACTION_INDEX,
                                             Top.info.material.refract.val.index)),
           !.refract_calls = 0,
           !.pc = "refract_math"])
    /\ lastTest' = Pending
    /\ UNCHANGED <<phase, query, ret, tests, calls, sceneVars, geomVars, renderVars>>

\* Lines 147-148: the material does not refract.
RefractSkip ==
    /\ phase = "running"
    /\ Top.pc = "refract"
    /\ ~Top.info.material.refract.some
    /\ stack' = SetTop([Top EXCEPT !.pc = "combine"])
    /\ lastTest' = Pending
    /\ UNCHANGED <<phase, query, ret, tests, calls, sceneVars, geomVars, renderVars>>

\* math.rs 9-10: refract calls itself.
RefractRecurse ==
    /\ phase = "running"
    /\ Top.pc = "refract_math"
    /\ refract_cos_i_negative(Top.refract_args.val)
    /\ stack' = SetTop([Top EXCEPT
           !.refract_args = Some(refract_flipped(Top.refract_args.val)),
           !.refract_calls = Min(Top.refract_calls + 1, MaxRefractCalls)])
    /\ lastTest' = Pending
    /\ UNCHANGED <<phase, query, ret, tests, calls, sceneVars, geomVars, renderVars>>

\* math.rs 12-19 and scene.rs 135-144: refract returns the direction, and
\* the recursive call for the refracted ray is made.
RefractCall ==
    /\ phase = "running"
    /\ Top.pc = "refract_math"
    /\ ~refract_cos_i_negative(Top.refract_args.val)
    /\ \E refract_dir \in {refract_direction(Top.refract_args.val)} :
           stack' = Append(SetTop([Top EXCEPT !.pc = "refract_call"]),
                           Frame(OffsetOrigin(Top.info, refract_dir), refract_dir,
                                 Top.recursion_limit - 1))
    /\ calls' = calls + 1
    /\ lastTest' = Pending
    /\ UNCHANGED <<phase, query, ret, tests, sceneVars, geomVars, renderVars>>

\* Lines 149-159: the four colours are added and scaled down to 1.
Combine ==
    /\ phase = "running"
    /\ Top.pc = "combine"
    /\ Return(tone(Add(Add(Add(Top.diffuse_color_vec, Top.specular_color_vec),
                           Top.reflect_color_vec),
                       Top.refract_color_vec)))
    /\ lastTest' = Pending
    /\ UNCHANGED <<query, tests, calls, sceneVars, geomVars, renderVars>>

Next ==
    \/ \E object \in ObjectCatalogue : push_object(object)
    \/ \E light \in LightCatalogue : push_light(light)
    \/ \E ray \in RayCatalogue, recursion_limit \in 0..MaxDepth :
           CastRayCall(ray, recursion_limit)
    \/ CastRayExhausted
    \/ CastRayMiss
    \/ CastRayHit
    \/ ReflectCall
    \/ ReflectSkip
    \/ RefractEnter
    \/ RefractSkip
    \/ RefractRecurse
    \/ RefractCall
    \/ Combine

Spec == Init /\ [][Next]_vars

\* A call that can take a step takes it: the program runs on its own thread.
SpecFair == Spec /\ WF_vars(Next)


(***************************************************************************)
(* The material specification: cast_ray on scenes whose first object is a  *)
(* sphere of any of the sixteen materials the builders of material.rs      *)
(* make, a material having or lacking each of its four components.         *)
(***************************************************************************)
\* material.rs 32-71: none() or color(), then the with_ builders wanted.
MaterialOf(diffuse, specular, reflect_, refract_) ==
    Let(IF diffuse THEN Material_color(<<400, 400, 300>>, 600) ELSE Material_none, LAMBDA a :
    Let(IF specular THEN with_specular(a, 2, 300) ELSE a, LAMBDA b :
    Let(IF reflect_ THEN with_reflect(b, 100) ELSE b, LAMBDA c :
    IF refract_ THEN with_refract(c, 1500, 800) ELSE c)))

MaterialCatalogue ==
    {MaterialOf(d, s, r, t) : d \in BOOLEAN, s \in BOOLEAN, r \in BOOLEAN, t \in BOOLEAN}

\* A sphere of the material on the axis of the catalogue's rays, in front
\* of the board.
MaterialScenes ==
    {<<Sphere_new(V(0, 0, -16), 2 * Scale, m), BackBoard>> : m \in MaterialCatalogue}

MaterialLights == <<Light_new(V(0, 0, -4), 1500), Light_new(V(0, 0, -12), 1000)>>

InitMaterial ==
    /\ phase = "setup"
    /\ objects \in MaterialScenes
    /\ lights = MaterialLights
    /\ CastIdle
    /\ GeomIdle
    /\ RenderIdle

NextMaterial ==
    \/ \E ray \in RayCatalogue, recursion_limit \in 0..MaxDepth :
           CastRayCall(ray, recursion_limit)
    \/ CastRayExhausted
    \/ CastRayMiss
    \/ CastRayHit
    \/ ReflectCall
    \/ ReflectSkip
    \/ RefractEnter
    \/ RefractSkip
    \/ RefractRecurse
    \/ RefractCall
    \/ Combine

SpecMaterial == InitMaterial /\ [][NextMaterial]_vars

(***************************************************************************)
(* The render specification: Scene::render on a scene that has been built. *)
(* The parallel map over 0 .. width*height runs one task per pixel index   *)
(* on a pool of nworkers threads, which take the tasks in any order; its   *)
(* indexed collect puts the value of task rc into slot rc of the vector.   *)
(***************************************************************************)
\* Images are 1 .. MaxWidth pixels wide and 1 or 2 pixels high.
MaxWidth == 2

Heights == {1, 2}

\* Thread pools have 1 .. MaxWorkers threads.
MaxWorkers == 2

\* scene.rs 189: the recursion_limit of a primary ray.
PrimaryBudget == 4

\* pi/2 and 2 atan(1/2), the fields of view of the catalogue.
FovCatalogue == {1571, 927}

\* f32::tan at the halves of the catalogue's fields of view.
f32_tan(a) == IF a = Div(1571, 2 * Scale) THEN Scale ELSE Scale \div 2

\* framebuffer.rs 17-23
Framebuffer_new(width, height) ==
    [width |-> width, height |-> height, buf |-> [k \in 1..(width * height) |-> Zero3]]

\* Spheres that the primary rays of some pixels run into, and a light.
RenderObjects ==
    <<Sphere_new(V(-4, 0, -4), 2 * Scale, Ivory),
      Sphere_new(V(4, 4, -8), 2 * Scale, Material_color(<<300, 100, 100>>, 900)),
      Sphere_new(V(0, -4, -8), 2 * Scale, Material_color(<<Scale, 700, 300>>, 400))>>

RenderLights == <<Light_new(V(0, 10, 0), 1500)>>

\* A row index taken from the wrong dimension.
pixel_row_by_height(rc, width, height) == rc \div height

\* Lines 181-182.
pixel_row(rc, width, height) == rc \div width

pixel_col(rc, width) == rc % width

\* Lines 172-175 and 183-188: the direction of the primary ray of task rc.
primary_dir(rc, width, height, fov) ==
    Let2(width * Scale, height * Scale, LAMBDA wf, hf :
    Let(f32_tan(Div(fov, 2 * Scale)), LAMBDA fov_half_tan :
    Let2(pixel_row(rc, width, height) * Scale, pixel_col(rc, width) * Scale, LAMBDA rf, cf :
    <<(cf + Scale \div 2) - Div(wf, 2 * Scale),
      -(rf + Scale \div 2) + Div(hf, 2 * Scale),
      -Div(hf, Mul(2 * Scale, fov_half_tan))>>)))

\* Lines 180-190: the value of task rc.
pixel(rc) ==
    cast_ray(objects, lights, Zero3,
             primary_dir(rc, call.width, call.height, call.fov), PrimaryBudget)

\* A collect that fills the vector in the order in which the tasks finish.
collect_slot_by_completion(rc, vec) == Cardinality({k \in 1..Len(vec) : vec[k].done}) + 1

\* Line 191: the slot of the collected vector that takes the value of task rc.
collect_slot(rc, vec) == rc + 1

Tasks == 0..(call.width * call.height - 1)

\* The tasks that have not been taken by a thread.
Untaken == {rc \in Tasks : rc \notin running /\ writes[rc + 1] = 0}

InitRender ==
    /\ phase = "map"
    /\ objects = RenderObjects
    /\ lights = RenderLights
    /\ \E width \in 1..MaxWidth, height \in Heights, fov \in FovCatalogue :
           /\ call = [width |-> width, height |-> height, fov |-> fov]
           /\ fb = Framebuffer_new(width, height)
           /\ out = [k \in 1..(width * height) |-> Pending]
           /\ writes = [k \in 1..(width * height) |-> 0]
    /\ nworkers \in 1..MaxWorkers
    /\ running = {}
    /\ old = None
    /\ returned = None
    /\ GeomIdle
    /\ query = None
    /\ stack = <<>>
    /\ ret = None
    /\ tests = 0
    /\ calls = 0
    /\ lastTest = Pending

\* A thread of the pool that has nothing to do takes a task.
TaskStart(rc) ==
    /\ phase = "map"
    /\ rc \in Untaken
    /\ Cardinality(running) < nworkers
    /\ running' = running \cup {rc}
    /\ UNCHANGED <<call, nworkers, fb, out, writes, old, returned, phase,
                   query, stack, ret, tests, calls, lastTest, sceneVars, geomVars>>

\* A task finishes: its value goes into the collected vector.
TaskFinish(rc) ==
    /\ phase = "map"
    /\ rc \in running
    /\ running' = running \ {rc}
    /\ \E slot \in {collect_slot(rc, out)} :
           /\ out' = [out EXCEPT ![slot] = Returned(pixel(rc))]
           /\ writes' = [writes EXCEPT ![slot] = writes[slot] + 1]
    /\ UNCHANGED <<call, nworkers, fb, old, returned, phase,
                   query, stack, ret, tests, calls, lastTest, sceneVars, geomVars>>

\* Line 177: the closure has returned the collected vector; render_with
\* makes it the buffer of fb and returns the framebuffer that fb was.
RenderWith ==
    /\ phase = "map"
    /\ Untaken = {}
    /\ running = {}
    /\ fb' = [fb EXCEPT !.buf = [k \in 1..Len(out) |-> out[k].val]]
    /\ old' = Some(fb)
    /\ phase' = "rendered"
    /\ UNCHANGED <<call, nworkers, out, running, writes, returned,
                   query, stack, ret, tests, calls, lastTest, sceneVars, geomVars>>

\* Line 193: std::mem::replace(fb, old) moves old into fb and returns what
\* fb held.
MemReplace ==
    /\ phase = "rendered"
    /\ fb' = old.val
    /\ returned' = Some(fb)
    /\ phase' = "returned"
    /\ UNCHANGED <<call, nworkers, out, running, writes, old,
                   query, stack, ret, tests, calls, lastTest, sceneVars, geomVars>>

NextRender ==
    \/ \E rc \in Tasks : TaskStart(rc)
    \/ \E rc \in Tasks : TaskFinish(rc)
    \/ RenderWith
    \/ MemReplace

SpecRender == InitRender /\ [][NextRender]_vars

(***************************************************************************)
(* Reference geometry for the claims, in exact integer arithmetic and      *)
(* without normalising: the claims' formulas compare the program's results *)
(* with it.                                                                *)
(***************************************************************************)
ICross(a, b) ==
    <<a[2] * b[3] - a[3] * b[2], a[3] * b[1] - a[1] * b[3], a[1] * b[2] - a[2] * b[1]>>

Units(a) == <<a[1] \div Scale, a[2] \div Scale, a[3] \div Scale>>

\* The ray's unit direction, exact for the catalogue's directions.
RefUnit(dir) ==
    LET l == ISqrt(IDot(dir, dir))
    IN  <<(dir[1] * Scale) \div l, (dir[2] * Scale) \div l, (dir[3] * Scale) \div l>>

\* For a sphere call q: the roots of |orig + t u - center|^2 = radius^2 are
\* m -+ sqrt(d), with m = (center - orig) . u and d = m^2 - w,
\* w = |center - orig|^2 - radius^2.  w < 0: the origin is strictly inside.
RefM(q) == IDot(Sub(q.object.center, q.orig), RefUnit(q.dir)) \div Scale

RefW(q) ==
    LET v == Sub(q.object.center, q.orig)
    IN  IDot(v, v) - q.object.radius * q.object.radius

RefD(q) == RefM(q) * RefM(q) - RefW(q)

\* e is the square root of d, to the nearest unit.
IsRoundedSqrt(e, d) ==
    /\ e >= 0
    /\ (2 * e - 1) * (2 * e - 1) <= 4 * d \/ e = 0
    /\ 4 * d <= (2 * e + 1) * (2 * e + 1)

RefNearNonNegative(q) == RefM(q) >= 0 /\ RefW(q) >= 0

RefFarNonNegative(q) == RefM(q) >= 0 \/ RefW(q) <= 0

IsNearRoot(q, t) == IsRoundedSqrt(RefM(q) - t, RefD(q))

IsFarRoot(q, t) == IsRoundedSqrt(t - RefM(q), RefD(q))

\* For a board call q: the ray meets the plane at p - ((n . p) / (n . d)) d,
\* p = orig - origin, n = cell_dir.0 x cell_dir.1.  The fractional cell
\* coordinate along cell_dir.i is the fraction num / den (den > 0) below.
RefInFront(q) ==
    LET b == q.object
        n == ICross(Units(b.cell_dir[1]), Units(b.cell_dir[2]))
    IN  IDot(n, Units(Sub(q.orig, b.origin))) * IDot(n, Units(q.dir)) < 0

RefCoord(q, i) ==
    LET b == q.object
        c == Units(b.cell_dir[i])
        n == ICross(Units(b.cell_dir[1]), Units(b.cell_dir[2]))
        p == Units(Sub(q.orig, b.origin))
        d == Units(q.dir)
        k == IDot(n, d)
        np == IDot(n, p)
        hitk == <<k * p[1] - np * d[1], k * p[2] - np * d[2], k * p[3] - np * d[3]>>
        num == IDot(hitk, c)
        den == k * IDot(c, c)
    IN  IF den < 0 THEN [num |-> -num, den |-> -den] ELSE [num |-> num, den |-> den]

RefNegative(q, i) == RefCoord(q, i).num < 0

RefCell(q) ==
    <<RefCoord(q, 1).num \div RefCoord(q, 1).den, RefCoord(q, 2).num \div RefCoord(q, 2).den>>

SphereDone == gres.done /\ gq.object.kind = "Sphere"

BoardDone == gres.done /\ gq.object.kind = "Checkerboard"

(***************************************************************************)
(* The colour the specification names as the background, [0.2, 0.7, 0.8].  *)
(***************************************************************************)
StatedBackground == <<(2 * Scale) \div 10, (7 * Scale) \div 10, (8 * Scale) \div 10>>

\* The innermost call is at its first line.
Entering == phase = "running" /\ Top.pc = "enter"

\* The innermost call returns color in this step.
Returns(color) == ret' = Some(color) /\ Len(stack') = Len(stack) - 1

Misses(k, orig, dir) == ~ray_intersect(objects[k], orig, dir).some

HitDist(k, orig, dir) == ray_intersect(objects[k], orig, dir).val.dist

\* The outermost call has returned.
Done == phase = "done"

(***************************************************************************)
(* C1                                                                      *)
(***************************************************************************)
\* C1: a cast_ray call with depth budget 0, outermost or nested, in any
\* scene and for any ray, returns the background colour [0.2, 0.7, 0.8]
\* in its next step, and that step calls neither test_intersect nor cast_ray.
DepthZeroIsBackground ==
    [][(Entering /\ Top.recursion_limit = 0)
           => (Returns(StatedBackground) /\ tests' = tests /\ calls' = calls)]_vars

\* An outermost call with budget 0 has returned the background although
\* the scene has lights and an object in the ray's way, and nothing was
\* tested and no other call made.
DepthZeroWitness ==
    /\ Done
    /\ query.val.recursion_limit = 0
    /\ lights # <<>>
    /\ \E k \in 1..Len(objects) : ~Misses(k, query.val.orig, query.val.dir)
    /\ ret = Some(StatedBackground)
    /\ tests = 0
    /\ calls = 1

(***************************************************************************)
(* C2                                                                      *)
(***************************************************************************)
\* C2: a cast_ray call with depth budget >= 1 whose ray no object of the
\* scene intersects (the empty scene included) returns the background
\* colour [0.2, 0.7, 0.8] in its next step, whatever the lights.
MissIsBackground ==
    [][(/\ Entering
        /\ Top.recursion_limit >= 1
        /\ \A k \in 1..Len(objects) : Misses(k, Top.orig, Top.dir))
           => Returns(StatedBackground)]_vars

\* An outermost call with budget >= 1 has returned the background in a
\* scene that has objects and lights, none of the objects in the ray's way.
MissWitness ==
    /\ Done
    /\ query.val.recursion_limit >= 1
    /\ objects # <<>>
    /\ lights # <<>>
    /\ \A k \in 1..Len(objects) : Misses(k, query.val.orig, query.val.dir)
    /\ ret = Some(StatedBackground)
    /\ tests = 1

(***************************************************************************)
(* C3                                                                      *)
(***************************************************************************)
RECURSIVE SequentialMap(_)
\* The vector one thread makes by running the tasks 0 .. n-1 in order and
\* pushing each value as it comes.
SequentialMap(n) ==
    IF n = 0 THEN <<>>
    ELSE Let(SequentialMap(n - 1), LAMBDA before : Append(before, pixel(n - 1)))

\* The render has got as far as the parallel map, or beyond it.
Mapping == phase \in {"map", "rendered", "returned"}

\* The framebuffer that holds the collected vector once the map is over.
Produced == IF phase = "rendered" THEN fb ELSE returned.val

\* C3: for a fixed scene, width, height and field of view, whatever the
\* number of threads and the order in which the tasks start and finish,
\* every slot of the collected vector is written at most once and only with
\* the value of the task of its own index, and once the map is over every
\* slot has been written exactly once and the framebuffer produced is the
\* one a single thread makes by running the tasks in order.
ParallelInvariance ==
    Mapping =>
        /\ \A k \in 1..Len(out) :
               /\ writes[k] <= 1
               /\ out[k].done <=> writes[k] = 1
               /\ out[k].done => out[k].val = pixel(k - 1)
        /\ phase # "map" =>
               /\ Len(out) = call.width * call.height
               /\ \A k \in 1..Len(out) : writes[k] = 1
               /\ Produced.buf = SequentialMap(call.width * call.height)

\* Two threads are running tasks at once, and the task of a later pixel has
\* finished before that of an earlier pixel of another colour.
ParallelInvarianceWitness ==
    /\ phase = "map"
    /\ Cardinality(running) = 2
    /\ \E j \in 1..Len(out), k \in 1..Len(out) :
           /\ j < k
           /\ ~out[j].done
           /\ out[k].done
           /\ out[k].val # pixel(j - 1)

(***************************************************************************)
(* C4                                                                      *)
(***************************************************************************)
\* The budgets of the calls under way: the outermost has the initial budget
\* d, each nested call its caller's budget minus one, none a budget below
\* 0, and at most d calls are nested in the outermost one.
CastRayBudget ==
    phase = "running" =>
        /\ \A k \in 1..Len(stack) :
               /\ stack[k].recursion_limit = query.val.recursion_limit - (k - 1)
               /\ stack[k].recursion_limit >= 0
        /\ Len(stack) - 1 <= query.val.recursion_limit

\* A call with budget 0 makes no further call.
CastRayBudgetZeroCallsNothing ==
    [][(Entering /\ Top.recursion_limit = 0) => calls' = calls]_vars

\* C4: cast_ray terminates for every scene and every initial depth budget
\* d; every recursive call has its caller's budget minus one, the nesting
\* depth never exceeds d and the budget never goes below 0.
CastRayTerminates == [](CastRayBudget) /\ <>(Done)

\* The call that does not terminate: the ray touches a refracting sphere in
\* one point, and refract calls itself without end.
CastRayStuck ==
    /\ phase = "running"
    /\ Top.pc = "refract_math"
    /\ Top.refract_calls = MaxRefractCalls

(***************************************************************************)
(* C5                                                                      *)
(***************************************************************************)
\* C5: test_intersect returns None exactly when no object of the scene
\* reports a hit; otherwise it returns a hit that some object reports and
\* whose distance is at most the distance of every reported hit; and with
\* the objects pushed in any other order, so that they report in that
\* order, it returns None in the same cases and a hit at the same distance.
TestIntersectNearest ==
    lastTest.done =>
        LET t == lastTest.val
            reported == Reports(objects, t.orig, t.dir)
            hits == {k \in 1..Len(objects) : reported[k].some}
        IN  /\ ~t.result.some <=> hits = {}
            /\ t.result.some =>
                   /\ \E k \in hits : t.result.val = reported[k].val
                   /\ \A k \in hits : t.result.val.dist <= reported[k].val.dist
            /\ \A p \in Permutations(1..Len(objects)) :
                   LET r == Nearest([k \in 1..Len(objects) |-> reported[p[k]]])
                   IN  /\ r.some = t.result.some
                       /\ r.some => r.val.dist = t.result.val.dist

\* test_intersect has chosen between two hits at different distances, the
\* nearer one reported by the object pushed first.
TestIntersectWitness ==
    /\ lastTest.done
    /\ lastTest.val.result.some
    /\ Len(objects) = 2
    /\ ~Misses(1, lastTest.val.orig, lastTest.val.dir)
    /\ ~Misses(2, lastTest.val.orig, lastTest.val.dir)
    /\ HitDist(1, lastTest.val.orig, lastTest.val.dir)
           < HitDist(2, lastTest.val.orig, lastTest.val.dir)
    /\ lastTest.val.result.val.dist = HitDist(1, lastTest.val.orig, lastTest.val.dir)

(***************************************************************************)
(* C6                                                                      *)
(***************************************************************************)
\* The innermost call has just hit something and shaded the hit point: its
\* frame holds info, the filtered lights and the two sums, none of which
\* changes afterwards.
Shading == IF phase = "running" /\ Top.pc = "reflect" THEN {Len(stack)} ELSE {}

\* The shadow ray from the hit of frame f toward light l: its direction,
\* its origin a step of 1e-3 off the surface on the light's side, and the
\* distance to the light.
ShadowDir(f, l) == Normalize(Sub(lights[l].position, f.info.hit))

ShadowOrig(f, l) ==
    IF IDot(ShadowDir(f, l), f.info.normal) < 0
    THEN Sub(f.info.hit, <<f.info.normal[1] \div Scale, f.info.normal[2] \div Scale,
                           f.info.normal[3] \div Scale>>)
    ELSE Add(f.info.hit, <<f.info.normal[1] \div Scale, f.info.normal[2] \div Scale,
                           f.info.normal[3] \div Scale>>)

ShadowLightDist(f, l) == Norm(Sub(lights[l].position, f.info.hit))

\* What each object reports for the shadow ray from f toward light l.
ShadowHits(f, l) == Reports(objects, ShadowOrig(f, l), ShadowDir(f, l))

\* Some object intersects the shadow ray strictly nearer than the light is.
InShadow(f, l) ==
    Let2(ShadowHits(f, l), ShadowLightDist(f, l), LAMBDA h, light_dist :
        \E k \in 1..Len(objects) : h[k].some /\ h[k].val.dist < light_dist)

\* Some object intersects the shadow ray, but not nearer than the light is.
BeyondLight(f, l) ==
    Let2(ShadowHits(f, l), ShadowLightDist(f, l), LAMBDA h, light_dist :
        \E k \in 1..Len(objects) : h[k].some /\ h[k].val.dist >= light_dist)

\* The lights that are in shadow at the hit of frame f.
Shadowed(f) == {l \in 1..Len(lights) : InShadow(f, l)}

\* Light l is among the filtered lights of frame f.
Kept(f, l) ==
    \E i \in 1..Len(f.filtered_lights) :
        /\ f.filtered_lights[i].light = lights[l]
        /\ f.filtered_lights[i].light_dir = ShadowDir(f, l)

\* What light l adds to the diffuse and to the specular sum of frame f if
\* it is not in shadow; a light in shadow adds 0.
DiffuseShare(f, l) ==
    Mul(lights[l].intensity, Max(0, Dot(ShadowDir(f, l), f.info.normal)))

SpecularShare(f, l) ==
    Mul(lights[l].intensity,
        PowF(Max(0, Dot(reflect(ShadowDir(f, l), f.info.normal), Normalize(f.dir))),
             f.info.material.specular.val.specular_exp))

RECURSIVE DiffuseShares(_, _, _)
DiffuseShares(f, shadowed, n) ==
    IF n = 0 THEN 0
    ELSE DiffuseShares(f, shadowed, n - 1)
             + (IF n \in shadowed THEN 0 ELSE DiffuseShare(f, n))

RECURSIVE SpecularShares(_, _, _)
SpecularShares(f, shadowed, n) ==
    IF n = 0 THEN 0
    ELSE SpecularShares(f, shadowed, n - 1)
             + (IF n \in shadowed THEN 0 ELSE SpecularShare(f, n))

\* C6: at a hit point a light is left out of the shading if and only if
\* some object intersects the shadow ray toward it strictly nearer than the
\* light is, so an object beyond the light does not leave it out; and the
\* diffuse and specular sums are the sums over all lights in which a light
\* that is left out adds zero.
ShadowCorrectness ==
    \A j \in Shading :
        LET f == stack[j]
            shadowed == Shadowed(f)
        IN  /\ \A l \in 1..Len(lights) : Kept(f, l) <=> l \notin shadowed
            /\ Len(f.filtered_lights) = Len(lights) - Cardinality(shadowed)
            /\ f.info.material.diffuse.some =>
                   f.diffuse_color_vec
                       = Scl(Scl(f.info.material.diffuse.val.kind,
                                 DiffuseShares(f, shadowed, Len(lights))),
                             f.info.material.diffuse.val.albedo)
            /\ f.info.material.specular.some =>
                   f.specular_color_vec
                       = Scl(Scl(<<Scale, Scale, Scale>>,
                                 SpecularShares(f, shadowed, Len(lights))),
                             f.info.material.specular.val.albedo)

\* At one hit point one light is left out because an object is in front of
\* it, another is kept although an object is on its shadow ray beyond it,
\* and the kept light alone makes up the diffuse sum, which is not zero.
ShadowWitness ==
    \E j \in Shading :
        LET f == stack[j]
        IN  /\ Len(lights) = 2
            /\ \E l \in 1..2 : InShadow(f, l) /\ ~Kept(f, l)
            /\ \E l \in 1..2 :
                   /\ Kept(f, l)
                   /\ BeyondLight(f, l)
                   /\ DiffuseShare(f, l) > 0
                   /\ DiffuseShares(f, Shadowed(f), 2) = DiffuseShare(f, l)
            /\ f.info.material.diffuse.some
            /\ f.diffuse_color_vec # Zero3

(***************************************************************************)
(* The calls of cast_ray one after another and the function cast_ray.      *)
(***************************************************************************)
\* When the outermost call has returned, it has returned what the function
\* cast_ray gives for its arguments.
CastRayAgrees ==
    Done => ret = Some(cast_ray(objects, lights, query.val.orig, query.val.dir,
                                query.val.recursion_limit))

(***************************************************************************)
(* C7                                                                      *)
(***************************************************************************)
\* C7: Sphere::ray_intersect returns None when the line misses the sphere;
\* otherwise the near root if it is non-negative, otherwise the far root if
\* that is non-negative, otherwise None.  Hence an origin strictly inside the
\* sphere gets the far root, a sphere entirely behind the origin gets None,
\* every returned distance is >= 0, and the ray from [0,0,0] toward [0,0,-1]
\* meets the sphere of centre [0,0,-16] and radius 2 at distance 14.
SphereRootSelection ==
    SphereDone =>
        LET r == gres.val
        IN  /\ RefD(gq) < 0 => r = None
            /\ RefD(gq) >= 0 /\ RefNearNonNegative(gq) =>
                   r.some /\ IsNearRoot(gq, r.val.dist)
            /\ RefD(gq) >= 0 /\ ~RefNearNonNegative(gq) /\ RefFarNonNegative(gq) =>
                   r.some /\ IsFarRoot(gq, r.val.dist)
            /\ RefD(gq) >= 0 /\ ~RefNearNonNegative(gq) /\ ~RefFarNonNegative(gq) =>
                   r = None
            /\ RefW(gq) < 0 => r.some /\ IsFarRoot(gq, r.val.dist)
            /\ RefW(gq) > 0 /\ RefM(gq) < 0 => r = None
            /\ r.some => r.val.dist >= 0
            /\ (gq.orig = V(0, 0, 0) /\ gq.dir = V(0, 0, -1) /\ gq.object.radius = 2 * Scale) =>
                   r.some /\ r.val.dist = 14 * Scale /\ r.val.hit = V(0, 0, -14)
                          /\ r.val.normal = V(0, 0, 1)

\* An origin strictly inside the sphere, off its centre, has got the far root,
\* which differs from the near one.
SphereInsideWitness ==
    /\ SphereDone
    /\ RefW(gq) < 0
    /\ RefM(gq) > 0
    /\ gres.val.some
    /\ IsFarRoot(gq, gres.val.val.dist)
    /\ ~IsNearRoot(gq, gres.val.val.dist)

(***************************************************************************)
(* C8                                                                      *)
(***************************************************************************)
BoardMaterial(q) == Checkerboard_ray_intersect(q.object, q.orig, q.dir).val.material

BoardHits == {q \in BoardQueries : Checkerboard_ray_intersect(q.object, q.orig, q.dir).some}

CellStep(a, b) == <<Abs(a[1] - b[1]), Abs(a[2] - b[2])>>

\* C8: the material of an accepted hit is material.0 when the sum of the two
\* truncated cell coordinates is even and material.1 when it is odd; two hits
\* in cells adjacent along either basis direction get different materials of
\* the pair, two hits in cells two apart along a basis direction get the same.
CheckerboardParity ==
    (BoardDone /\ gres.val.some) =>
        LET cell == RefCell(gq)
            m == gres.val.val.material
        IN  /\ m = gq.object.material[((cell[1] + cell[2]) % 2) + 1]
            /\ \A q \in BoardHits :
                   /\ CellStep(RefCell(q), cell) \in {<<1, 0>>, <<0, 1>>} => BoardMaterial(q) # m
                   /\ CellStep(RefCell(q), cell) \in {<<2, 0>>, <<0, 2>>} => BoardMaterial(q) = m

\* A hit in cell (1, 0), next to cell (0, 0), resolved to material.1.
CheckerboardParityWitness ==
    /\ BoardDone
    /\ gres.val.some
    /\ RefCell(gq) = <<1, 0>>
    /\ gres.val.val.material = gq.object.material[2]
    /\ \E q \in BoardHits : RefCell(q) = <<0, 0>> /\ BoardMaterial(q) = gq.object.material[1]

(***************************************************************************)
(* C9                                                                      *)
(***************************************************************************)
RefBeyond(q, i) == RefCoord(q, i).num > q.object.dims[i] * RefCoord(q, i).den

RefAtOrBeyond(q, i) == RefCoord(q, i).num >= q.object.dims[i] * RefCoord(q, i).den

\* C9 as stated: a ray meeting the plane in front of it gets no hit exactly
\* when a fractional cell coordinate is negative or exceeds its cell count.
CheckerboardBoundsAsStated ==
    (BoardDone /\ RefInFront(gq)) =>
        (gres.val = None <=>
            \/ RefNegative(gq, 1) \/ RefNegative(gq, 2)
            \/ RefBeyond(gq, 1) \/ RefBeyond(gq, 2))

\* C9, amended: a ray meeting the plane in front of it gets no hit exactly
\* when a fractional cell coordinate is negative or is greater than or equal
\* to its cell count; the truncated cell index of every returned hit is a cell
\* of the dims.0 x dims.1 board.
CheckerboardBounds ==
    (BoardDone /\ RefInFront(gq)) =>
        /\ gres.val = None <=>
               \/ RefNegative(gq, 1) \/ RefNegative(gq, 2)
               \/ RefAtOrBeyond(gq, 1) \/ RefAtOrBeyond(gq, 2)
        /\ gres.val.some =>
               /\ RefCell(gq)[1] \in 0..(gq.object.dims[1] - 1)
               /\ RefCell(gq)[2] \in 0..(gq.object.dims[2] - 1)

\* A ray that meets the plane exactly on the board's far edge (coordinate
\* equal to the cell count) got no hit.
CheckerboardEdgeWitness ==
    /\ BoardDone
    /\ RefInFront(gq)
    /\ ~RefNegative(gq, 1) /\ ~RefNegative(gq, 2)
    /\ RefCoord(gq, 1).num = gq.object.dims[1] * RefCoord(gq, 1).den
    /\ ~RefAtOrBeyond(gq, 2)
    /\ gres.val = None

(***************************************************************************)
(* C10                                                                     *)
(***************************************************************************)
\* The primary ray of pixel (r, c):
\* ((c + 0.5) - width/2, -(r + 0.5) + height/2, -height / (2 tan(fov/2))).
StatedPrimaryDir(r, c) ==
    <<(c * Scale + Scale \div 2) - RDiv(call.width * Scale, 2),
      -(r * Scale + Scale \div 2) + RDiv(call.height * Scale, 2),
      -RDiv(call.height * Scale * Scale, 2 * f32_tan(RDiv(call.fov, 2)))>>

\* buf holds width*height pixels in row-major order, the pixel at index
\* c + r*width being the colour cast_ray returns for the primary ray of
\* pixel (r, c) from the world origin with depth budget 4.
HoldsPixels(buf) ==
    /\ Len(buf) = call.width * call.height
    /\ \A r \in 0..(call.height - 1), c \in 0..(call.width - 1) :
           buf[c + r * call.width + 1] =
               cast_ray(objects, lights, Zero3, StatedPrimaryDir(r, c), 4)

Combining == phase = "running" /\ Top.pc = "combine"

\* The sum of the four contributions of frame f, channel by channel.
ContributionSum(f) ==
    <<f.diffuse_color_vec[1] + f.specular_color_vec[1] + f.reflect_color_vec[1]
          + f.refract_color_vec[1],
      f.diffuse_color_vec[2] + f.specular_color_vec[2] + f.reflect_color_vec[2]
          + f.refract_color_vec[2],
      f.diffuse_color_vec[3] + f.specular_color_vec[3] + f.reflect_color_vec[3]
          + f.refract_color_vec[3]>>

\* The largest channel of colour c.
MaxChannel(c) == CHOOSE m \in {c[1], c[2], c[3]} : \A i \in 1..3 : c[i] <= m

\* Colour c unchanged if its largest channel is <= 1.0, and every channel
\* divided by the largest otherwise.
StatedClamp(c) ==
    IF MaxChannel(c) <= Scale THEN c
    ELSE [i \in 1..3 |-> RDiv(c[i] * Scale, MaxChannel(c))]

\* C11: every colour cast_ray has returned, from the outermost call or a
\* nested one, has no channel above 1.0; and the last step of a call that
\* hit something returns the sum of the four contributions unchanged if its
\* largest channel is <= 1.0 and divided by the largest channel otherwise, a
\* colour with no channel above 1.0 that the step, applied again, leaves as
\* it is.
EnergyClamp ==
    /\ [](ret.some => \A i \in 1..3 : ret.val[i] <= Scale)
    /\ [][Combining =>
              /\ Returns(StatedClamp(ContributionSum(Top)))
              /\ MaxChannel(ret'.val) <= Scale
              /\ tone(ret'.val) = ret'.val]_vars

\* The sum of the four contributions of an outermost call of budget 1 that
\* hit something: its nested calls have budget 0 and give the background.
BudgetOneSum ==
    LET q == query.val
        info == test_intersect(objects, q.orig, q.dir).val
        fls == filtered_lights(objects, lights, info)
        nested(albedo) == [i \in 1..3 |-> Mul(StatedBackground[i], albedo)]
        reflected == IF info.material.reflect.some
                     THEN nested(info.material.reflect.val) ELSE Zero3
        refracted == IF info.material.refract.some
                     THEN nested(info.material.refract.val.albedo) ELSE Zero3
    IN  ContributionSum([diffuse_color_vec |-> diffuse_color_vec(info, fls),
                         specular_color_vec |-> specular_color_vec(info, fls, Normalize(q.dir)),
                         reflect_color_vec |-> reflected,
                         refract_color_vec |-> refracted])

\* A call of budget 1 hit a surface lit so that a channel of the sum is
\* above 1.0, and has returned the sum divided by its largest channel.
EnergyClampWitness ==
    /\ Done
    /\ query.val.recursion_limit = 1
    /\ test_intersect(objects, query.val.orig, query.val.dir).some
    /\ MaxChannel(BudgetOneSum) > Scale
    /\ ret.val # BudgetOneSum
    /\ ret.val = StatedClamp(BudgetOneSum)
    /\ MaxChannel(ret.val) = Scale

(***************************************************************************)
(* C12                                                                     *)
(***************************************************************************)
\* The calls under way that have hit something.
HitFrames == {k \in 1..Len(stack) : stack[k].pc # "enter"}

\* Material m has none of the four components.
NoComponent(m) == ~m.diffuse.some /\ ~m.specular.some /\ ~m.reflect.some /\ ~m.refract.some

\* What the outermost call's ray hits, if anything.
OutermostHit == test_intersect(objects, query.val.orig, query.val.dir)

\* The innermost call is at the reflection term, or at the refraction
\* term, of a material that lacks that component.
AtAbsentTerm ==
    /\ phase = "running"
    /\ \/ Top.pc = "reflect" /\ ~Top.info.material.reflect.some
       \/ Top.pc = "refract" /\ ~Top.info.material.refract.some

\* C12: in every call that has hit something, the diffuse, specular,
\* reflection and refraction terms of components the hit material lacks are
\* the zero vector; the step over an absent reflect or refract component
\* makes no call of cast_ray and no intersection test; and a call with
\* budget >= 1 that hits a surface whose material has no component at all
\* returns [0, 0, 0], which is not the background colour, having made no
\* nested call.
AbsentComponents ==
    /\ [](\A k \in HitFrames :
              LET f == stack[k]
                  m == f.info.material
              IN  /\ ~m.diffuse.some => f.diffuse_color_vec = <<0, 0, 0>>
                  /\ ~m.specular.some => f.specular_color_vec = <<0, 0, 0>>
                  /\ ~m.reflect.some => f.reflect_color_vec = <<0, 0, 0>>
                  /\ ~m.refract.some => f.refract_color_vec = <<0, 0, 0>>)
    /\ [][AtAbsentTerm =>
              calls' = calls /\ tests' = tests /\ Len(stack') = Len(stack)]_vars
    /\ [][(Combining /\ NoComponent(Top.info.material)) => Returns(<<0, 0, 0>>)]_vars
    /\ []((Done /\ query.val.recursion_limit >= 1 /\ OutermostHit.some
               /\ NoComponent(OutermostHit.val.material))
              => (ret = Some(<<0, 0, 0>>) /\ ret.val # StatedBackground /\ calls = 1))

\* A call with budget >= 1 has hit the sphere of the material without
\* components, with lights on it and the board behind it, and has returned
\* black.
AbsentComponentsWitness ==
    /\ Done
    /\ query.val.recursion_limit >= 1
    /\ OutermostHit.some
    /\ NoComponent(OutermostHit.val.material)
    /\ Len(lights) >= 1
    /\ ret.val = <<0, 0, 0>>

(***************************************************************************)
(* C13                                                                     *)
(***************************************************************************)
\* The innermost call of cast_ray is inside refract.
InRefract == phase = "running" /\ Top.pc = "refract_math"

\* The incident direction of the refract call of frame f lies in the
\* tangent plane: its dot product with the normal is zero.
Grazing(f) == IDot(f.refract_args.val.i, f.refract_args.val.n) = 0

\* C13: refract terminates for every incident direction, normal and index
\* pair, the grazing case included: a top-level call of refract calls itself
\* at most once, and returns.
RefractTerminates ==
    /\ [](\A k \in 1..Len(stack) : stack[k].refract_calls <= 1)
    /\ InRefract ~> ~InRefract

\* When the incident direction is not in the tangent plane, refract calls
\* itself at most once.
RefractOnceUnlessGrazing ==
    \A k \in 1..Len(stack) :
        (stack[k].refract_args.some /\ ~Grazing(stack[k])) => stack[k].refract_calls <= 1

\* refract has called itself once for a ray leaving a sphere, and returned.
RefractOnceWitness ==
    /\ phase = "running"
    /\ Len(stack) >= 2
    /\ stack[Len(stack) - 1].pc = "refract_call"
    /\ stack[Len(stack) - 1].refract_calls = 1

=============================================================================
